---- MODULE Spec2Model ----
(***************************************************************************)
(* A model of mdp/linear_flows.py: the Flow container (a sequence of nodes *)
(* kept dimension-consistent), Flow.train / CheckpointFlow.train and the   *)
(* crash-recovery wrapping of node failures.                               *)
(***************************************************************************)
EXTENDS Integers, Sequences, FiniteSets, TLC

VARIABLES
    flow,     \* Flow.flow: the list of nodes held by the pipeline
    alive,    \* TRUE iff Flow.__init__ returned (a pipeline object exists)
    op,       \* name of the last container operation called
    err,      \* exception class raised by the last container operation
    ret,      \* value returned by the last container operation (a sequence)
    arg,      \* argument of the last call: the sequence handed to Flow.__init__,
              \* the operand of extend and +, the input of execute and inverse
    variant,          \* class of the pipeline: "Flow" or "CheckpointFlow"
    crash_recovery,   \* Flow._crash_recovery: "off" (0), "auto" (1), "named" (a str)
    pc,               \* position of the train call in progress
    call,             \* arguments of the train call: [data, checkpoints]
    data_iterators,   \* the checked per-node sources, with what was consumed
    checkpoints,      \* the checked per-node checkpoint functions
    nodenr,           \* index (0-based) of the node being trained
    cur,              \* items the running `for x in data_iterator` has yielded
    log,              \* calls made on nodes, sources and callbacks, in order
    exc,              \* exception raised to the caller: chain, outermost first
    dumps,            \* crash dumps written, in order: "named" or "temp"
    attrs,            \* entries written to the pipeline's __dict__ by checkpoints
    heap,             \* the node objects of a pipeline that is executed, by identity
    twin              \* the pipeline returned by Flow.copy (NoTwin before the call)

cvars == <<flow, alive, op, err, ret, arg>>
tvars ==
    <<variant, crash_recovery, pc, call, data_iterators, checkpoints, nodenr,
      cur, log, exc, dumps, attrs>>
hvars == <<heap, twin>>
vars == <<cvars, tvars, hvars>>

(***************************************************************************)
(* Bounds.                                                                 *)
(***************************************************************************)
MaxLen == 3        \* longest pipeline the model builds
MaxOperand == 1    \* longest right-hand operand / assigned slice value

(***************************************************************************)
(* Values.  A dimension is NoneDim (Python None) or {d} for the integer d. *)
(***************************************************************************)
NoneDim == {}
\* Only equality of dimensions matters: two known values are enough for a
\* match and for a mismatch.
Dims == {NoneDim, {1}, {2}}

\* An mdp.Node instance: its dimensions, its training state (trainable:
\* is_trainable(); nphases: len(_train_seq); phase: training phases closed)
\* and its transform (fn; "none" where the node is never executed on data).
MkNode(inp, out, tr, np, ph) ==
    [isnode |-> TRUE, input_dim |-> inp, output_dim |-> out,
     trainable |-> tr, nphases |-> np, phase |-> ph, fn |-> "none"]
\* the nodes the container operations are called with: every pair of
\* dimensions; the container never reads the training state
Nodes == {MkNode(i, o, FALSE, 0, 0) : i \in Dims, o \in Dims}
\* a value that is not an mdp.Node instance
NotANode ==
    [isnode |-> FALSE, input_dim |-> NoneDim, output_dim |-> NoneDim,
     trainable |-> FALSE, nphases |-> 0, phase |-> 0, fn |-> "none"]
Values == Nodes \cup {NotANode}

RECURSIVE SeqsUpTo(_, _)
SeqsUpTo(S, n) ==
    IF n = 0 THEN {<<>>}
    ELSE LET shorter == SeqsUpTo(S, n - 1)
         IN  shorter \cup {Append(s, x) : s \in {t \in shorter : Len(t) = n - 1}, x \in S}

Min(a, b) == IF a < b THEN a ELSE b
Max(a, b) == IF a > b THEN a ELSE b

(***************************************************************************)
(* Flow._check_dimension_consistency: `(out and inp) is not None and       *)
(* out != inp`.  Python's `a and b` is a when a is falsy (None or 0), else *)
(* b.                                                                      *)
(***************************************************************************)
Falsy(d) == d = NoneDim \/ d = {0}
PyAnd(a, b) == IF Falsy(a) THEN a ELSE b

DimensionMismatch(out, inp) == PyAnd(out, inp) # NoneDim /\ out # inp

\* a faulty variant: the loop starts one pair too late (range(2, len_flow))
NodesConsistent_SkipFirstPair(f) ==
    \A i \in 3..Len(f) : ~DimensionMismatch(f[i-1].output_dim, f[i].input_dim)

\* Flow._check_nodes_consistency: TRUE iff no ValueError is raised.
NodesConsistent(f) ==
    \A i \in 2..Len(f) : ~DimensionMismatch(f[i-1].output_dim, f[i].input_dim)

\* Flow._check_value_type_isnode: TRUE iff no TypeError is raised.
IsNode(v) == v.isnode

(***************************************************************************)
(* Python list indexing and simple slices (step 1) on a list of length n.  *)
(* Keys are 0-based as in the source; sequences are 1-based.               *)
(***************************************************************************)
IndexOk(k, n) == -n <= k /\ k < n
NormIndex(k, n) == IF k < 0 THEN k + n ELSE k
SliceBound(k, n) == IF k < 0 THEN Max(k + n, 0) ELSE Min(k, n)
SliceStart(a, n) == SliceBound(a, n)
SliceStop(a, b, n) == Max(SliceBound(a, n), SliceBound(b, n))

ListSetIndex(f, k, v) == [f EXCEPT ![NormIndex(k, Len(f)) + 1] = v]
ListSetSlice(f, a, b, vs) ==
    SubSeq(f, 1, SliceStart(a, Len(f))) \o vs
        \o SubSeq(f, SliceStop(a, b, Len(f)) + 1, Len(f))
ListDelIndex(f, k) ==
    SubSeq(f, 1, NormIndex(k, Len(f))) \o SubSeq(f, NormIndex(k, Len(f)) + 2, Len(f))
ListDelSlice(f, a, b) == ListSetSlice(f, a, b, <<>>)

(***************************************************************************)
(* Container operations.  Each returns [flow, err, ret]: the pipeline's    *)
(* list after the call, the exception class raised ("none" when the call   *)
(* returns) and the returned value.                                        *)
(***************************************************************************)
Outcome(f, e, r) == [flow |-> f, err |-> e, ret |-> r]

\* Flow.__init__: [ok, flow, err]
FlowInit(s) ==
    IF NodesConsistent(s) THEN [ok |-> TRUE, flow |-> s, err |-> "none"]
    ELSE [ok |-> FALSE, flow |-> <<>>, err |-> "ValueError"]

\* Flow.__setitem__ with an integer key
SetItemIndex(f, k, v) ==
    IF ~IsNode(v) THEN Outcome(f, "TypeError", <<>>)
    ELSE IF ~IndexOk(k, Len(f)) THEN Outcome(f, "IndexError", <<>>)
    ELSE LET flow_copy == ListSetIndex(f, k, v)
         IN  IF ~NodesConsistent(flow_copy) THEN Outcome(f, "ValueError", <<>>)
             ELSE Outcome(flow_copy, "none", <<>>)

\* Flow.__setitem__ with a slice key a:b and a sequence of values
SetItemSlice(f, a, b, vs) ==
    IF \E j \in 1..Len(vs) : ~IsNode(vs[j]) THEN Outcome(f, "TypeError", <<>>)
    ELSE LET flow_copy == ListSetSlice(f, a, b, vs)
         IN  IF ~NodesConsistent(flow_copy) THEN Outcome(f, "ValueError", <<>>)
             ELSE Outcome(flow_copy, "none", <<>>)

\* a faulty variant: deletes in self.flow itself, then checks
DelItemIndex_InPlace(f, k) ==
    IF ~IndexOk(k, Len(f)) THEN Outcome(f, "IndexError", <<>>)
    ELSE LET flow_copy == ListDelIndex(f, k)
         IN  IF ~NodesConsistent(flow_copy) THEN Outcome(flow_copy, "ValueError", <<>>)
             ELSE Outcome(flow_copy, "none", <<>>)

\* Flow.__delitem__ with an integer key
DelItemIndex(f, k) ==
    IF ~IndexOk(k, Len(f)) THEN Outcome(f, "IndexError", <<>>)
    ELSE LET flow_copy == ListDelIndex(f, k)
         IN  IF ~NodesConsistent(flow_copy) THEN Outcome(f, "ValueError", <<>>)
             ELSE Outcome(flow_copy, "none", <<>>)

\* Flow.__delitem__ with a slice key a:b
DelItemSlice(f, a, b) ==
    LET flow_copy == ListDelSlice(f, a, b)
    IN  IF ~NodesConsistent(flow_copy) THEN Outcome(f, "ValueError", <<>>)
        ELSE Outcome(flow_copy, "none", <<>>)

\* Flow.append: self[len(self):len(self)] = [x]
FlowAppend(f, x) == SetItemSlice(f, Len(f), Len(f), <<x>>)

\* Flow.insert: self[i:i] = [x]
FlowInsert(f, i, x) == SetItemSlice(f, i, i, <<x>>)

\* Flow.extend: x is an operand [kind, items]; only a Flow is accepted
FlowExtend(f, x) ==
    IF x.kind # "Flow" THEN Outcome(f, "TypeError", <<>>)
    ELSE SetItemSlice(f, Len(f), Len(f), x.items)

\* Flow.pop: x = self[i]; del self[i]; return x
FlowPop(f, i) ==
    IF ~IndexOk(i, Len(f)) THEN Outcome(f, "IndexError", <<>>)
    ELSE LET x == f[NormIndex(i, Len(f)) + 1]
             d == DelItemIndex(f, i)
         IN  IF d.err # "none" THEN d ELSE Outcome(d.flow, "none", <<x>>)

\* Flow.__add__: returns a new Flow, self is not assigned
FlowAdd(f, other) ==
    IF other.kind # "Flow" THEN Outcome(f, "TypeError", <<>>)
    ELSE LET flow_copy == f \o other.items
         IN  IF ~NodesConsistent(flow_copy) THEN Outcome(f, "ValueError", <<>>)
             ELSE Outcome(f, FlowInit(flow_copy).err, FlowInit(flow_copy).flow)

(***************************************************************************)
(* Inputs of the container operations.                                     *)
(***************************************************************************)
\* integer keys, 0-based, negative from the end; one past either end included
Keys == (0 - MaxLen - 1)..MaxLen
\* slice bounds: from the front, and -1 for "from the end"
SliceKeys == (0 - 1)..MaxLen
ValueSeqs == SeqsUpTo(Values, MaxOperand)
NodeSeqs == SeqsUpTo(Nodes, MaxOperand)
\* operands of extend and +: a Flow (itself dimension-consistent), a plain
\* list of nodes, or something that is neither
Operands ==
    {[kind |-> "Flow", items |-> s] : s \in {t \in NodeSeqs : NodesConsistent(t)}}
        \cup {[kind |-> "list", items |-> s] : s \in NodeSeqs}
        \cup {[kind |-> "other", items |-> <<>>]}

\* the sequences Flow.__init__ is called with
InitArgs == SeqsUpTo(Nodes, MaxLen)

\* A call is made when no call is outstanding; its outcome stays observable
\* until the caller takes it (Return).
Idle == alive /\ op = "idle"

\* the call `name` with argument a has the outcome o
ApplyWith(name, o, a) ==
    /\ Idle
    /\ Len(o.flow) <= MaxLen
    /\ flow' = o.flow
    /\ err' = o.err
    /\ ret' = o.ret
    /\ op' = name
    /\ arg' = a
    /\ UNCHANGED <<alive, hvars, tvars>>

Apply(name, o) == ApplyWith(name, o, <<>>)

SetIndex ==
    /\ Idle
    /\ \E k \in Keys, v \in Values :
        \E o \in {SetItemIndex(flow, k, v)} : Apply("setitem", o)
SetSlice ==
    /\ Idle
    /\ \E a \in SliceKeys, b \in SliceKeys, vs \in ValueSeqs :
        \E o \in {SetItemSlice(flow, a, b, vs)} : Apply("setslice", o)
DelIndex ==
    /\ Idle
    /\ \E k \in Keys : \E o \in {DelItemIndex(flow, k)} : Apply("delitem", o)
DelSlice ==
    /\ Idle
    /\ \E a \in SliceKeys, b \in SliceKeys :
        \E o \in {DelItemSlice(flow, a, b)} : Apply("delslice", o)
DoAppend ==
    /\ Idle
    /\ \E x \in Values : \E o \in {FlowAppend(flow, x)} : Apply("append", o)
DoInsert ==
    /\ Idle
    /\ \E i \in Keys, x \in Values :
        \E o \in {FlowInsert(flow, i, x)} : Apply("insert", o)
DoExtend ==
    /\ Idle
    /\ \E x \in Operands : \E o \in {FlowExtend(flow, x)} : ApplyWith("extend", o, x)
DoPop ==
    /\ Idle
    /\ \E i \in Keys : \E o \in {FlowPop(flow, i)} : Apply("pop", o)
DoAdd ==
    /\ Idle
    /\ \E x \in Operands : \E o \in {FlowAdd(flow, x)} : ApplyWith("add", o, x)

\* the caller takes the outcome of the last call
Return ==
    /\ alive
    /\ op # "idle"
    /\ op' = "idle"
    /\ err' = "none"
    /\ ret' = <<>>
    /\ arg' = <<>>
    /\ UNCHANGED <<flow, alive, hvars, tvars>>

\* no copy of the pipeline has been made
NoTwin == [made |-> FALSE]

\* the training state of a pipeline on which train has not been called
NoTraining ==
    /\ crash_recovery = "off"
    /\ pc = "idle"
    /\ call = <<>>
    /\ data_iterators = <<>>
    /\ checkpoints = <<>>
    /\ nodenr = 0
    /\ cur = 0
    /\ log = <<>>
    /\ exc = <<>>
    /\ dumps = <<>>
    /\ attrs = {}
    /\ heap = <<>>
    /\ twin = NoTwin

Init ==
    /\ \E s \in InitArgs :
        /\ arg = s
        /\ flow = FlowInit(s).flow
        /\ alive = FlowInit(s).ok
        /\ err = FlowInit(s).err
        /\ op = "init"
        /\ ret = <<>>
    /\ variant = "Flow"
    /\ NoTraining

Next ==
    \/ SetIndex
    \/ SetSlice
    \/ DelIndex
    \/ DelSlice
    \/ DoAppend
    \/ DoInsert
    \/ DoExtend
    \/ DoPop
    \/ DoAdd
    \/ Return

Spec == Init /\ [][Next]_vars

(***************************************************************************)
(* Training.  The nodes of a pipeline being trained are distinct objects:  *)
(* the training state is kept per position of the flow.                    *)
(***************************************************************************)
MaxUnits == 2      \* longest pipeline that is trained
MaxPhases == 2     \* most training phases of a node
MaxSamples == 2    \* most items a data source yields

\* The mdp.Node interface the flow relies on.
is_trainable(n) == n.trainable
is_training(n) == n.trainable /\ n.phase < n.nphases
get_remaining_train_phase(n) == n.nphases - n.phase
TrainSeqLen(n) == n.nphases
\* type(node).__name__: the class fixes the transform, trainability and the
\* training sequence
TypeName(n) == <<n.fn, n.trainable, n.nphases>>
\* node.stop_training() returning: the open phase is closed
PhaseClosed(n) == [n EXCEPT !.phase = n.phase + 1]
\* node.execute(x) returning: a node still in training closes its phase first
Executed(n) == IF is_training(n) THEN PhaseClosed(n) ELSE n

\* nodes as they may stand when train is called: not trainable, or trainable
\* with 1..MaxPhases phases of which any number are already closed
TrainNodes ==
    {MkNode(NoneDim, NoneDim, FALSE, 0, 0)}
        \cup {MkNode(NoneDim, NoneDim, TRUE, np, ph) : np \in 1..MaxPhases, ph \in 0..MaxPhases}
TrainStates == {n \in TrainNodes : n.phase <= n.nphases}
TrainFlows == SeqsUpTo(TrainStates, MaxUnits)

\* A per-node data source: None, a value without __iter__, a list of n
\* items (restartable), a generator of n items, or another single-pass
\* iterator of n items such as iter(list) (`used` counts the items a
\* single-pass source has handed out).
Src(kind, n) == [kind |-> kind, n |-> n, used |-> 0]
Sources ==
    {Src("None", 0), Src("noniter", 0), Src("generator", MaxSamples),
     Src("iterator", MaxSamples)}
        \cup {Src("list", m) : m \in 0..MaxSamples}
\* the data_iterators argument: an array, a list of sources, anything else
DataArgs ==
    {[kind |-> "ndarray", items |-> <<>>], [kind |-> "other", items |-> <<>>]}
        \cup {[kind |-> "list", items |-> s] : s \in SeqsUpTo(Sources, MaxUnits)}
\* the checkpoints argument: one value for all nodes, or a list; a
\* checkpoint is None or a function
CheckpointArgs ==
    {[kind |-> "single", items |-> <<c>>] : c \in {"None", "fn"}}
        \cup {[kind |-> "list", items |-> s] : s \in SeqsUpTo({"None", "fn"}, MaxUnits)}
NoCheckpoints == [kind |-> "absent", items |-> <<>>]

\* Exceptions are chains of frames, outermost first: a FlowExceptionCR is
\* followed by its parent_exception.
Frame(class, msg, nr, type, file) ==
    [class |-> class, msg |-> msg, nodenr |-> nr, type |-> type, file |-> file]
FlowException(msg) == <<Frame("FlowException", msg, -1, <<>>, "")>>
\* a failure raised by node nr in the call `call`
NodeError(nr, called) == <<Frame("NodeError", called, nr, <<>>, "")>>
\* Log entries.  "next": item x taken from the source of node `unit`;
\* "train": node.train on item x; "stop_training": node.stop_training, x = 0
\* when _train_node calls it and 1 when _close_last_node does; "execute";
\* "autoclose": the node closed its phase on being executed; "warn";
\* "extra": the train call just logged was given x arguments after the item;
\* "checkpoint": the checkpoint function of node `unit` called; "result": it
\* returned CheckpointResults[x]; "try": the try block of _train_node
\* entered with x phases of the node remaining.
Ev(ev, unit, x) == [ev |-> ev, unit |-> unit, x |-> x]

\* a faulty variant: the name given to set_crash_recovery is ignored
DumpTarget_IgnoresName(rec) == IF rec = "off" THEN "" ELSE "temp"

\* FlowExceptionCR.__init__: where the crash dump goes ("" when none is made)
DumpTarget(rec) ==
    IF rec = "off" THEN "" ELSE IF rec = "named" THEN "named" ELSE "temp"

\* CrashRecoveryException.dump raises: the setting "unwritable" is the name of
\* a file that cannot be written
DumpFails(rec) == rec = "unwritable"

\* Flow._propagate_exception: the FlowExceptionCR raised for except_ caught
\* at node nr, and the dump written while it is built; what dump raises
\* leaves FlowExceptionCR.__init__ and takes the place of the exception
\* under construction
Propagate(f, rec, except_, nr) ==
    IF DumpFails(rec)
    THEN [exc |-> <<Frame("IOError", "dump", nr, <<>>, "")>>, dump |-> <<>>]
    ELSE [exc |-> <<Frame("FlowExceptionCR", "node", nr, TypeName(f[nr + 1]),
                          DumpTarget(rec))>>
                    \o except_,
          dump |-> IF rec = "off" THEN <<>> ELSE <<DumpTarget(rec)>>]

\* a faulty variant: the number of sources is not compared with the flow's
TrainCheckIterators_NoCount(f, data) ==
    LET its == IF data.kind = "ndarray" THEN [i \in 1..Len(f) |-> Src("list", 1)]
               ELSE data.items
    IN  IF data.kind \notin {"ndarray", "list"}
            THEN [err |-> "not a list", iters |-> <<>>]
        ELSE IF \E i \in 1..Len(its) : its[i].kind = "noniter"
            THEN [err |-> "not iterable", iters |-> <<>>]
        ELSE IF \E i \in 1..Min(Len(f), Len(its)) :
                    TrainSeqLen(f[i]) > 1 /\ its[i].kind = "generator"
            THEN [err |-> "generator", iters |-> <<>>]
        ELSE [err |-> "none", iters |-> its]

\* a faulty variant: a generator is refused by the phases the node has left,
\* not by the length of its training sequence
TrainCheckIterators_Remaining(f, data) ==
    LET its == IF data.kind = "ndarray" THEN [i \in 1..Len(f) |-> Src("list", 1)]
               ELSE data.items
    IN  IF data.kind \notin {"ndarray", "list"}
            THEN [err |-> "not a list", iters |-> <<>>]
        ELSE IF \E i \in 1..Len(its) : its[i].kind = "noniter"
            THEN [err |-> "not iterable", iters |-> <<>>]
        ELSE IF Len(its) # Len(f)
            THEN [err |-> "iterators count", iters |-> <<>>]
        ELSE IF \E i \in 1..Len(f) :
                    get_remaining_train_phase(f[i]) > 1 /\ its[i].kind = "generator"
            THEN [err |-> "generator", iters |-> <<>>]
        ELSE [err |-> "none", iters |-> its]

\* Flow._train_check_iterators: [err, iters]
TrainCheckIterators(f, data) ==
    LET its == IF data.kind = "ndarray" THEN [i \in 1..Len(f) |-> Src("list", 1)]
               ELSE data.items
    IN  IF data.kind \notin {"ndarray", "list"}
            THEN [err |-> "not a list", iters |-> <<>>]
        ELSE IF \E i \in 1..Len(its) : its[i].kind = "noniter"
            THEN [err |-> "not iterable", iters |-> <<>>]
        ELSE IF Len(its) # Len(f)
            THEN [err |-> "iterators count", iters |-> <<>>]
        ELSE IF \E i \in 1..Len(f) : TrainSeqLen(f[i]) > 1 /\ its[i].kind = "generator"
            THEN [err |-> "generator", iters |-> <<>>]
        ELSE [err |-> "none", iters |-> its]

\* a faulty variant: a single function is registered for the first node only
TrainCheckCheckpoints_FirstOnly(f, cps) ==
    LET list == IF cps.kind # "list"
                THEN [i \in 1..Len(f) |-> IF i = 1 THEN cps.items[1] ELSE "None"]
                ELSE cps.items
    IN  IF Len(list) # Len(f) THEN [err |-> "checkpoints count", cps |-> <<>>]
        ELSE [err |-> "none", cps |-> list]

\* CheckpointFlow._train_check_checkpoints: [err, cps]
TrainCheckCheckpoints(f, cps) ==
    LET list == IF cps.kind # "list" THEN [i \in 1..Len(f) |-> cps.items[1]]
                ELSE cps.items
    IN  IF Len(list) # Len(f) THEN [err |-> "checkpoints count", cps |-> <<>>]
        ELSE [err |-> "none", cps |-> list]

\* The items of a source are numbered from 1 in the order they are yielded;
\* the odd ones are arrays, the even ones tuples (array, label).
ItemIsTuple(k) == k % 2 = 0

\* _train_node, lines 102-106: the number of arguments split off item k
\* (`arg = x[1:]` for a list or tuple, `arg = ()` otherwise)
ExtraArgs(k) == IF ItemIsTuple(k) THEN 1 ELSE 0

\* node.train(x, *arg) on item k: the call, and the extra arguments it is
\* given when there are any
TrainCall(nr, k) ==
    <<Ev("train", nr, k)>>
        \o (IF ExtraArgs(k) > 0 THEN <<Ev("extra", nr, ExtraArgs(k))>> ELSE <<>>)

RECURSIVE ExecCalls(_, _, _, _)
\* a faulty variant: the item is filtered through the node being trained too
RECURSIVE ExecCalls_Inclusive(_, _, _, _)
ExecCalls_Inclusive(f, j, upto, fail) ==
    IF j > upto + 1 \/ j > fail \/ j >= Len(f) THEN <<>>
    ELSE (IF j < fail /\ is_training(f[j + 1]) THEN <<Ev("autoclose", j, 0)>> ELSE <<>>)
            \o <<Ev("execute", j, 0)>> \o ExecCalls_Inclusive(f, j + 1, upto, fail)

\* Flow._execute_seq(x, upto) while training: nodes 0..upto execute in order;
\* `fail` is the node whose execute raises (upto + 1: none does).  The flow
\* afterwards, and the calls made.
ExecCalls(f, j, upto, fail) ==
    IF j > upto \/ j > fail THEN <<>>
    ELSE (IF j < fail /\ is_training(f[j + 1]) THEN <<Ev("autoclose", j, 0)>> ELSE <<>>)
            \o <<Ev("execute", j, 0)>> \o ExecCalls(f, j + 1, upto, fail)

\* a faulty variant: the filtering starts at the second node
ExecFlow_SkipFirst(f, upto, fail) ==
    [p \in 1..Len(f) |->
        IF 1 <= p - 1 /\ p - 1 <= upto /\ p - 1 < fail THEN Executed(f[p]) ELSE f[p]]

\* the flow after _execute_seq(x, upto)
ExecFlow(f, upto, fail) ==
    [p \in 1..Len(f) |-> IF p - 1 <= upto /\ p - 1 < fail THEN Executed(f[p]) ELSE f[p]]

(***************************************************************************)
(* The train call, step by step.                                           *)
(***************************************************************************)
Raise(chain, dump) ==
    /\ pc' = "raised"
    /\ exc' = chain
    /\ dumps' = dumps \o dump

\* a faulty variant: the loop of train does not move on to the next node
Advance_Repeat ==
    IF nodenr + 1 < Len(flow)
    THEN pc' = "node" /\ nodenr' = nodenr
    ELSE pc' = "close" /\ nodenr' = nodenr

\* the for loop of train moves on to the next node, or to _close_last_node
Advance ==
    IF nodenr + 1 < Len(flow)
    THEN pc' = "node" /\ nodenr' = nodenr + 1
    ELSE pc' = "close" /\ nodenr' = nodenr

\* _train_node returned
NodeDone ==
    IF variant = "CheckpointFlow" THEN pc' = "ckpt" /\ nodenr' = nodenr ELSE Advance

\* Flow.set_crash_recovery
SetCrashRecovery ==
    /\ Idle /\ pc = "idle"
    /\ \E state \in {"off", "auto", "named"} :
        /\ crash_recovery' = state
        /\ crash_recovery' # crash_recovery
    /\ UNCHANGED <<cvars, hvars, variant, pc, call, data_iterators, checkpoints, nodenr,
                   cur, log, exc, dumps, attrs>>

\* the part of train before the loop over the nodes
TrainStart(data, cps, ci, cc) ==
    /\ call' = [data |-> data, checkpoints |-> cps]
    /\ IF ci.err # "none"
       THEN Raise(FlowException(ci.err), <<>>)
            /\ UNCHANGED <<data_iterators, checkpoints, nodenr>>
       ELSE IF cc.err # "none"
       THEN Raise(FlowException(cc.err), <<>>)
            /\ UNCHANGED <<data_iterators, checkpoints, nodenr>>
       ELSE /\ data_iterators' = ci.iters
            /\ checkpoints' = cc.cps
            /\ nodenr' = 0
            /\ pc' = IF Len(flow) = 0 THEN "close" ELSE "node"
            /\ UNCHANGED <<exc, dumps>>
    /\ UNCHANGED <<cvars, hvars, variant, crash_recovery, cur, log, attrs>>

\* Flow.train(data_iterators)
FlowTrain ==
    /\ Idle /\ pc = "idle" /\ variant = "Flow"
    /\ \E data \in DataArgs :
        \E ci \in {TrainCheckIterators(flow, data)} :
            TrainStart(data, NoCheckpoints, ci, [err |-> "none", cps |-> <<>>])

\* CheckpointFlow.train(data_iterators, checkpoints)
CheckpointFlowTrain ==
    /\ Idle /\ pc = "idle" /\ variant = "CheckpointFlow"
    /\ \E data \in DataArgs, cps \in CheckpointArgs :
        \E ci \in {TrainCheckIterators(flow, data)},
           cc \in {TrainCheckCheckpoints(flow, cps)} :
            TrainStart(data, cps, ci, cc)

\* what _train_node(data_iterators[nodenr], nodenr) is called with
TheNode == flow[nodenr + 1]
TheIter == data_iterators[nodenr + 1]

\* a faulty variant: the second branch tests `not node.is_training()`
TrainNodeBranch_Negated(node, it) ==
    IF it.kind # "None" /\ ~is_trainable(node) THEN "warn"
    ELSE IF it.kind = "None" /\ ~is_training(node) THEN "raise"
    ELSE IF it.kind = "None" /\ ~is_trainable(node) THEN "skip"
    ELSE "try"

\* _train_node, lines 74-89: what the if/elif chain does for a node and its
\* source: "warn" and return, "raise" a FlowException, "skip" (return), or
\* fall through to the "try" block
TrainNodeBranch(node, it) ==
    IF it.kind # "None" /\ ~is_trainable(node) THEN "warn"
    ELSE IF it.kind = "None" /\ is_training(node) THEN "raise"
    ELSE IF it.kind = "None" /\ ~is_trainable(node) THEN "skip"
    ELSE "try"

\* a source for a node that is not trainable: warn, go to the next node
TrainNodeNotTrainable ==
    /\ pc = "node"
    /\ TrainNodeBranch(TheNode, TheIter) = "warn"
    /\ log' = Append(log, Ev("warn", nodenr, 0))
    /\ NodeDone
    /\ UNCHANGED <<cvars, hvars, variant, crash_recovery, call, data_iterators, checkpoints,
                   cur, exc, dumps, attrs>>

\* no source for a node that is training: FlowException
TrainNodeMissingSource ==
    /\ pc = "node"
    /\ TrainNodeBranch(TheNode, TheIter) = "raise"
    /\ Raise(FlowException("missing source"), <<>>)
    /\ UNCHANGED <<cvars, hvars, variant, crash_recovery, call, data_iterators, checkpoints,
                   nodenr, cur, log, attrs>>

\* no source for a node that is not trainable: go to the next node
TrainNodeSkip ==
    /\ pc = "node"
    /\ TrainNodeBranch(TheNode, TheIter) = "skip"
    /\ NodeDone
    /\ UNCHANGED <<cvars, hvars, variant, crash_recovery, call, data_iterators, checkpoints,
                   cur, log, exc, dumps, attrs>>

\* the try block is entered; the log notes the phases the node has left
TrainNodeBegin ==
    /\ pc = "node"
    /\ TrainNodeBranch(TheNode, TheIter) = "try"
    /\ pc' = "loop"
    /\ cur' = 0
    /\ log' = Append(log, Ev("try", nodenr, get_remaining_train_phase(TheNode)))
    /\ UNCHANGED <<cvars, hvars, variant, crash_recovery, call, data_iterators, checkpoints,
                   nodenr, exc, dumps, attrs>>

\* `for x in data_iterator` has another item
HasNext(it, yielded) ==
    IF it.kind = "list" THEN yielded < it.n
    ELSE it.kind \in {"generator", "iterator"} /\ it.used < it.n

\* `for x in data_iterator` with data_iterator None: the TypeError is caught
\* by `except Exception` and propagated
TrainIterNone ==
    /\ pc = "loop"
    /\ TheIter.kind = "None"
    /\ \E w \in {Propagate(flow, crash_recovery,
                           <<Frame("TypeError", "not iterable", -1, <<>>, "")>>, nodenr)} :
        Raise(w.exc, w.dump)
    /\ UNCHANGED <<cvars, hvars, variant, crash_recovery, call, data_iterators, checkpoints,
                   nodenr, cur, log, attrs>>

\* a faulty variant: TrainingFinishedException is propagated like any other
Caught_NoDowngrade(raised, events, f) ==
    /\ log' = log \o events
    /\ \E w \in {Propagate(f, crash_recovery, raised, nodenr)} : Raise(w.exc, w.dump)
    /\ UNCHANGED nodenr

\* the catch clauses of _train_node, for what the try block raised
\* (TrainingFinishedException: warn and return; anything else: propagate)
Caught(raised, events, f) ==
    IF raised[1].class = "TrainingFinishedException"
    THEN /\ log' = log \o events \o <<Ev("warn", nodenr, 0)>>
         /\ NodeDone
         /\ UNCHANGED <<exc, dumps>>
    ELSE /\ log' = log \o events
         /\ \E w \in {Propagate(f, crash_recovery, raised, nodenr)} : Raise(w.exc, w.dump)
         /\ UNCHANGED nodenr

\* one turn of the for loop: take the next item, filter it through the
\* previous nodes and train the node.  `fail` is the previous node whose
\* execute raises (nodenr: none); `outcome` is what node.train does.
TrainSample ==
    /\ pc = "loop"
    /\ HasNext(TheIter, cur)
    /\ \E fail \in 0..nodenr, outcome \in {"ok", "raise"} :
        LET x == cur + 1
            taken == <<Ev("next", nodenr, x)>>
            filtered == ExecFlow(flow, nodenr - 1, fail)
            calls == taken \o ExecCalls(flow, 0, nodenr - 1, fail)
            its == IF TheIter.kind \in {"generator", "iterator"}
                   THEN [data_iterators EXCEPT ![nodenr + 1].used = @ + 1]
                   ELSE data_iterators
        IN  /\ data_iterators' = its
            /\ cur' = x
            /\ flow' = filtered
            /\ IF fail < nodenr
               THEN \* _execute_seq raised the FlowExceptionCR of node `fail`
                    /\ outcome = "ok"
                    /\ \E inner \in {Propagate(flow, crash_recovery,
                                               NodeError(fail, "execute"), fail)} :
                        \E w \in {Propagate(flow, crash_recovery, inner.exc, nodenr)} :
                            Raise(w.exc, inner.dump \o w.dump)
                    /\ log' = log \o calls
                    /\ UNCHANGED nodenr
               ELSE IF ~is_training(TheNode)
               THEN /\ outcome = "ok"
                    /\ Caught(<<Frame("TrainingFinishedException", "train", nodenr, <<>>, "")>>,
                              calls \o TrainCall(nodenr, x), filtered)
               ELSE IF outcome = "raise"
               THEN Caught(NodeError(nodenr, "train"),
                           calls \o TrainCall(nodenr, x), filtered)
               ELSE /\ log' = log \o calls \o TrainCall(nodenr, x)
                    /\ UNCHANGED <<pc, nodenr, exc, dumps>>
    /\ UNCHANGED <<alive, hvars, op, err, ret, arg, variant, crash_recovery, call,
                   checkpoints, attrs>>

\* a faulty variant: closes the last phase as well
MorePhases_CloseAll(node) == get_remaining_train_phase(node) > 0

\* _train_node, line 111: the test made after each pass over the source
MorePhases(node) == get_remaining_train_phase(node) > 1

\* the for loop is exhausted: close the phase and go round again when more
\* than one phase remains, else break
TrainPassEnd ==
    /\ pc = "loop"
    /\ TheIter.kind # "None"
    /\ ~HasNext(TheIter, cur)
    /\ IF MorePhases(TheNode)
       THEN \E outcome \in {"ok", "raise"} :
            IF outcome = "raise"
            THEN /\ Caught(NodeError(nodenr, "stop_training"),
                           <<Ev("stop_training", nodenr, 0)>>, flow)
                 /\ UNCHANGED <<flow, cur>>
            ELSE /\ flow' = [flow EXCEPT ![nodenr + 1] = PhaseClosed(@)]
                 /\ log' = Append(log, Ev("stop_training", nodenr, 0))
                 /\ cur' = 0
                 /\ UNCHANGED <<pc, nodenr, exc, dumps>>
       ELSE /\ NodeDone
            /\ UNCHANGED <<flow, cur, log, exc, dumps>>
    /\ UNCHANGED <<alive, hvars, op, err, ret, arg, variant, crash_recovery, call,
                   data_iterators, checkpoints, attrs>>

\* What a checkpoint function hands back: None, an empty dictionary, or a
\* dictionary (a set of <<key, value>> pairs with one value per key).
NoResult == [none |-> TRUE, dict |-> {}]
DictResult(d) == [none |-> FALSE, dict |-> d]
CheckpointResults ==
    <<NoResult, DictResult({}), DictResult({<<"a", 1>>}),
      DictResult({<<"a", 2>>, <<"b", 2>>})>>

\* dict.update(e) on the dictionary d
DictUpdate(d, e) == {p \in d : \A q \in e : q[1] # p[1]} \cup e

\* a faulty variant: entries the pipeline already has are kept (setdefault)
Merged_KeepExisting(own, r) ==
    IF r.none \/ r.dict = {} THEN own
    ELSE {q \in r.dict : \A p \in own : p[1] # q[1]} \cup own

\* CheckpointFlow.train, line 441: `if dict: self.__dict__.update(dict)`
Merged(own, r) ==
    IF r.none \/ r.dict = {} THEN own ELSE DictUpdate(own, r.dict)

\* a faulty variant: the checkpoint call is guarded like a node's training
CheckpointFails_Wrapped(chain) ==
    \E w \in {Propagate(flow, crash_recovery, chain, nodenr)} : Raise(w.exc, w.dump)

\* CheckpointFlow.train, line 440: the call of the checkpoint function is in
\* no try block, what it raises leaves train as it is
CheckpointFails(chain) == Raise(chain, <<>>)

\* CheckpointFlow.train: the checkpoint of the node just trained.  The
\* function raises, or (CheckpointSaveFunction with stop_training set) closes
\* the node's phase and returns None, or returns result number r; the log
\* notes the call and, when it returns, the number of the result.
Checkpoint ==
    /\ pc = "ckpt"
    /\ IF nodenr <= Len(checkpoints) /\ checkpoints[nodenr + 1] # "None"
       THEN \E outcome \in {"raise", "close", "return"}, r \in 1..Len(CheckpointResults) :
            /\ outcome # "return" => r = 1
            /\ IF outcome = "raise"
                  \/ (outcome = "close" /\ ~is_training(TheNode))
               THEN /\ log' = Append(log, Ev("checkpoint", nodenr, 0))
                    /\ CheckpointFails(<<Frame(IF outcome = "raise" THEN "CheckpointError"
                                               ELSE "TrainingFinishedException",
                                               "checkpoint", nodenr, <<>>, "")>>)
                    /\ UNCHANGED <<flow, nodenr, attrs>>
               ELSE /\ log' = log \o <<Ev("checkpoint", nodenr, 0), Ev("result", nodenr, r)>>
                    /\ flow' = IF outcome = "close"
                               THEN [flow EXCEPT ![nodenr + 1] = PhaseClosed(@)]
                               ELSE flow
                    /\ attrs' = Merged(attrs, CheckpointResults[r])
                    /\ Advance
                    /\ UNCHANGED <<exc, dumps>>
       ELSE /\ Advance
            /\ UNCHANGED <<flow, log, exc, dumps, attrs>>
    /\ UNCHANGED <<alive, hvars, op, err, ret, arg, variant, crash_recovery, call,
                   data_iterators, checkpoints, cur>>

\* a faulty variant: train returns without closing the last node
CloseLastNode_NoStop ==
    /\ pc = "close"
    /\ pc' = "returned"
    /\ UNCHANGED <<cvars, hvars, variant, crash_recovery, call, data_iterators, checkpoints,
                   nodenr, cur, log, exc, dumps, attrs>>

\* Flow._close_last_node
CloseLastNode ==
    /\ pc = "close"
    /\ IF Len(flow) = 0
       THEN \* self.flow[-1] raises IndexError, in the try block and again in
            \* _propagate_exception
            /\ Raise(<<Frame("IndexError", "flow[-1]", -1, <<>>, "")>>, <<>>)
            /\ UNCHANGED <<flow, log>>
       ELSE LET last == Len(flow) - 1
            IN  /\ log' = Append(log, Ev("stop_training", last, 1))
                /\ IF ~is_training(flow[last + 1])
                   THEN \* TrainingFinishedException: pass
                        /\ pc' = "returned"
                        /\ UNCHANGED <<flow, exc, dumps>>
                   ELSE \E outcome \in {"ok", "raise"} :
                        IF outcome = "raise"
                        THEN /\ \E w \in {Propagate(flow, crash_recovery,
                                                    NodeError(last, "stop_training"), last)} :
                                    Raise(w.exc, w.dump)
                             /\ UNCHANGED flow
                        ELSE /\ flow' = [flow EXCEPT ![last + 1] = PhaseClosed(@)]
                             /\ pc' = "returned"
                             /\ UNCHANGED <<exc, dumps>>
    /\ UNCHANGED <<alive, hvars, op, err, ret, arg, variant, crash_recovery, call,
                   data_iterators, checkpoints, nodenr, cur, attrs>>

\* a pipeline of either class, just constructed from nodes in any training
\* state
TrainInit ==
    /\ flow \in TrainFlows
    /\ alive = TRUE
    /\ op = "idle"
    /\ err = "none"
    /\ ret = <<>>
    /\ arg = <<>>
    /\ variant \in {"Flow", "CheckpointFlow"}
    /\ NoTraining

TrainNext ==
    \/ SetCrashRecovery
    \/ FlowTrain
    \/ CheckpointFlowTrain
    \/ TrainNodeNotTrainable
    \/ TrainNodeMissingSource
    \/ TrainNodeSkip
    \/ TrainNodeBegin
    \/ TrainIterNone
    \/ TrainSample
    \/ TrainPassEnd
    \/ Checkpoint
    \/ CloseLastNode

TrainSpec == TrainInit /\ [][TrainNext]_vars

\* the steps of a train call in progress
TrainStep ==
    \/ TrainNodeNotTrainable
    \/ TrainNodeMissingSource
    \/ TrainNodeSkip
    \/ TrainNodeBegin
    \/ TrainIterNone
    \/ TrainSample
    \/ TrainPassEnd
    \/ Checkpoint
    \/ CloseLastNode

\* The same, with the interpreter going on with a call in progress: the
\* code is synchronous and every call it makes on a node, a source or a
\* checkpoint function returns or raises.
TrainLiveSpec == TrainInit /\ [][TrainNext]_vars /\ WF_vars(TrainStep)

(***************************************************************************)
(* Execution.  The nodes of a pipeline that is executed are objects on a   *)
(* heap: flow holds their identities, heap their state, so that one node   *)
(* may stand at two places of a pipeline.  An array is a sequence of rows, *)
(* a row is an integer.                                                    *)
(***************************************************************************)
MaxNodes == 2      \* longest pipeline that is executed
MaxBatches == 2    \* most batches of an iterable input
MaxRow == 1        \* rows of the input hold 0..MaxRow

\* The transforms of the node classes: "inc" and "neg" have an exact
\* inverse, the inverse of "sq" is not the inverse of its transform.
Fns == {"inc", "neg", "sq"}
Forward(fn, v) == IF fn = "inc" THEN v + 1 ELSE IF fn = "neg" THEN 0 - v ELSE v * v
Backward(fn, v) == IF fn = "inc" THEN v - 1 ELSE IF fn = "neg" THEN 0 - v ELSE v
\* node.execute(x) and node.inverse(x) returning: the transform row by row
NodeExecute(n, x) == [r \in 1..Len(x) |-> Forward(n.fn, x[r])]
NodeInverse(n, x) == [r \in 1..Len(x) |-> Backward(n.fn, x[r])]

\* nodes as they may stand when the pipeline is executed: not trainable, or
\* trainable with one phase, open or closed
ExecNode(fn, tr, ph) ==
    [MkNode(NoneDim, NoneDim, tr, IF tr THEN 1 ELSE 0, ph) EXCEPT !.fn = fn]
ExecNodes ==
    {ExecNode(fn, FALSE, 0) : fn \in Fns} \cup {ExecNode(fn, TRUE, ph) : fn \in Fns, ph \in 0..1}

\* the node records a list of identities stands for
Deref(h, fl) == [i \in 1..Len(fl) |-> h[fl[i]]]
\* the identities in a list
Ids(fl) == {fl[i] : i \in 1..Len(fl)}
\* lists of identities up to renaming: a new identity is the next unused one
FlowShapes ==
    {fl \in SeqsUpTo(1..MaxNodes, MaxNodes) :
        \A i \in 1..Len(fl) : fl[i] = 1 \/ \E j \in 1..(i - 1) : fl[j] >= fl[i] - 1}

\* inputs of execute and inverse: one array, or a list of arrays
Arrays == {<<v>> : v \in 0..MaxRow}
ExecInputs ==
    {[kind |-> "ndarray", items |-> a] : a \in Arrays}
        \cup {[kind |-> "list", items |-> s] : s \in SeqsUpTo(Arrays, MaxBatches)}
\* the nodenr argument: None, or an integer
NoNodenr == [none |-> TRUE, n |-> 0]
NodenrArgs == {NoNodenr} \cup {[none |-> FALSE, n |-> k] : k \in (0 - 2)..MaxNodes}
\* the node call of an operation that raises (0: none does)
MaxCalls == MaxNodes * MaxBatches

\* a faulty variant: range(nodenr) in place of range(nodenr+1)
ExecuteOrder_OffByOne(fl, nr) ==
    LET last == IF nr.none THEN Len(fl) - 1 ELSE nr.n
    IN  [k \in 1..Max(last, 0) |-> k - 1]

\* _execute_seq, lines 213-214: the indices the loop visits, range(nodenr+1)
\* with nodenr = len(flow)-1 for None
ExecuteOrder(fl, nr) ==
    LET last == IF nr.none THEN Len(fl) - 1 ELSE nr.n
    IN  [k \in 1..Max(last + 1, 0) |-> k - 1]

\* a faulty variant: the nodes are inverted front to back
InverseOrder_Forward(fl) == [k \in 1..Len(fl) |-> k - 1]

\* _inverse_seq, line 243: range(len(flow)-1, -1, -1)
InverseOrder(fl) == [k \in 1..Len(fl) |-> Len(fl) - k]

\* The state of a run of node calls: the heap, the data, the calls made and
\* their number, the exception raised, the dumps written and the results of
\* the batches done.
RunState(h, x) ==
    [heap |-> h, x |-> x, calls |-> <<>>, n |-> 0, exc |-> <<>>, dumps |-> <<>>,
     res |-> <<>>]

\* a faulty variant: the failure of the node is dropped
NodeCallCaught_Swallowed(fl, rec, st, e, i) == st

\* the except clause of _execute_seq and _inverse_seq
NodeCallCaught(fl, rec, st, e, i) ==
    LET w == Propagate(Deref(st.heap, fl), rec, e, i)
    IN  [st EXCEPT !.exc = w.exc, !.dumps = @ \o w.dump]

\* The loop of _execute_seq / _inverse_seq over the indices `order` on batch
\* number b; node call number `fail` of the operation raises.  flow[i] past
\* the end raises IndexError in the try block, and _propagate_exception
\* raises it again at self.flow[nodenr].
RECURSIVE RunSeq(_, _, _, _, _, _, _)
RunSeq(fl, rec, st, order, method, b, fail) ==
    IF order = <<>> \/ st.exc # <<>> THEN st
    ELSE LET i == Head(order)
         IN  IF i >= Len(fl)
             THEN [st EXCEPT !.exc = <<Frame("IndexError", "flow[i]", i, <<>>, "")>>]
             ELSE LET node == st.heap[fl[i + 1]]
                      called == [st EXCEPT !.n = @ + 1,
                                           !.calls = Append(@, Ev(method, i, b))]
                  IN  IF called.n = fail
                      THEN NodeCallCaught(fl, rec, called, NodeError(i, method), i)
                      ELSE RunSeq(fl, rec,
                                  [called EXCEPT
                                     !.heap[fl[i + 1]] =
                                        IF method = "execute" THEN Executed(node) ELSE node,
                                     !.x = IF method = "execute" THEN NodeExecute(node, st.x)
                                           ELSE NodeInverse(node, st.x)],
                                  Tail(order), method, b, fail)

\* `for x in iterator: res.append(self._execute_seq(x, nodenr))`
RECURSIVE RunBatches(_, _, _, _, _, _, _)
RunBatches(fl, rec, st, batches, order, method, fail) ==
    IF batches = <<>> \/ st.exc # <<>> THEN st
    ELSE LET r == RunSeq(fl, rec, [st EXCEPT !.x = Head(batches)], order, method,
                         Len(st.res) + 1, fail)
         IN  RunBatches(fl, rec,
                        [r EXCEPT !.res = IF r.exc = <<>> THEN Append(@, r.x) ELSE @],
                        Tail(batches), order, method, fail)

\* numx.concatenate(res): the rows of the arrays, in order; an empty list of
\* arrays is refused
RECURSIVE Rows(_)
Rows(res) == IF res = <<>> THEN <<>> ELSE Head(res) \o Rows(Tail(res))
Concatenate(st) ==
    IF st.exc # <<>> THEN st
    ELSE IF st.res = <<>>
    THEN [st EXCEPT !.exc = <<Frame("ValueError", "concatenate", -1, <<>>, "")>>]
    ELSE [st EXCEPT !.x = Rows(st.res)]

\* Flow.execute / Flow.inverse on input, over the indices `order`
RunFlow(fl, h, rec, input, order, method, fail) ==
    IF input.kind = "ndarray"
    THEN RunSeq(fl, rec, RunState(h, input.items), order, method, 1, fail)
    ELSE Concatenate(RunBatches(fl, rec, RunState(h, <<>>), input.items, order,
                                method, fail))

\* Flow.execute(iterator, nodenr)
FlowExecute(fl, h, rec, input, nr, fail) ==
    RunFlow(fl, h, rec, input, ExecuteOrder(fl, nr), "execute", fail)

\* Flow.inverse(iterator)
FlowInverse(fl, h, rec, input, fail) ==
    RunFlow(fl, h, rec, input, InverseOrder(fl), "inverse", fail)

\* Flow.__getitem__ with the slice key [:stop]: a new pipeline of the same
\* class on the same node objects, its crash recovery off
GetItemSlice(fl, h, stop) ==
    LET flow_slice == SubSeq(fl, 1, SliceBound(stop, Len(fl)))
    IN  IF ~NodesConsistent(Deref(h, flow_slice))
        THEN [err |-> "ValueError", flow |-> <<>>, crash_recovery |-> "off"]
        ELSE [err |-> FlowInit(Deref(h, flow_slice)).err, flow |-> flow_slice,
              crash_recovery |-> "off"]

\* the outcome o of a call becomes the state the caller sees
Ran(name, input, c, o) ==
    /\ op' = name
    /\ arg' = input
    /\ call' = c
    /\ heap' = o.heap
    /\ ret' = IF o.exc = <<>> THEN o.x ELSE <<>>
    /\ log' = o.calls
    /\ exc' = o.exc
    /\ dumps' = o.dumps
    /\ UNCHANGED <<flow, alive, err, twin, variant, crash_recovery, pc, data_iterators,
                   checkpoints, nodenr, cur, attrs>>

\* flow.execute(input, nodenr), or flow.execute(input)
DoExecute ==
    /\ Idle
    /\ \E input \in ExecInputs, nr \in NodenrArgs, fail \in 0..MaxCalls :
        \E o \in {FlowExecute(flow, heap, crash_recovery, input, nr, fail)} :
            /\ fail <= o.n
            /\ Ran("execute", input,
                   [nodenr |-> nr, fail |-> fail, of |-> "given", x0 |-> input], o)

\* flow.inverse(input), on an input given or on the array the execute before
\* it returned (x0 is the input of that execute)
DoInverse ==
    /\ alive
    /\ \/ op = "idle"
       \/ op = "execute" /\ exc = <<>>
    /\ \E given \in ExecInputs, fail \in 0..MaxCalls :
        LET input == IF op = "idle" THEN given ELSE [kind |-> "ndarray", items |-> ret]
            c == [nodenr |-> NoNodenr, fail |-> fail,
                  of |-> IF op = "idle" THEN "given"
                         ELSE IF call.nodenr.none THEN "execute" ELSE "partial",
                  x0 |-> IF op = "idle" THEN given ELSE arg]
        IN  /\ op = "execute" => given = [kind |-> "list", items |-> <<>>]
            /\ \E o \in {FlowInverse(flow, heap, crash_recovery, input, fail)} :
                /\ fail <= o.n
                /\ Ran("inverse", input, c, o)

\* the caller takes the outcome of execute or inverse
ExecReturn ==
    /\ alive
    /\ op \in {"execute", "inverse"}
    /\ op' = "idle"
    /\ arg' = <<>>
    /\ call' = <<>>
    /\ ret' = <<>>
    /\ log' = <<>>
    /\ exc' = <<>>
    /\ dumps' = <<>>
    /\ UNCHANGED <<flow, alive, err, hvars, variant, crash_recovery, pc, data_iterators,
                   checkpoints, nodenr, cur, attrs>>

\* a pipeline just constructed from nodes of any class and training state
ExecInit ==
    /\ flow \in FlowShapes
    /\ heap \in [Ids(flow) -> ExecNodes]
    /\ twin = NoTwin
    /\ alive = TRUE
    /\ op = "idle"
    /\ err = "none"
    /\ ret = <<>>
    /\ arg = <<>>
    /\ variant = "Flow"
    /\ crash_recovery = "off"
    /\ pc = "idle"
    /\ call = <<>>
    /\ data_iterators = <<>>
    /\ checkpoints = <<>>
    /\ nodenr = 0
    /\ cur = 0
    /\ log = <<>>
    /\ exc = <<>>
    /\ dumps = <<>>
    /\ attrs = {}

ExecNext ==
    \/ SetCrashRecovery
    \/ DoExecute
    \/ DoInverse
    \/ ExecReturn

ExecSpec == ExecInit /\ [][ExecNext]_vars

(***************************************************************************)
(* Execution with a crash dump that cannot be written.                     *)
(***************************************************************************)
\* flow.set_crash_recovery(name), name a file in a directory that is missing
ArmUnwritable ==
    /\ Idle /\ pc = "idle"
    /\ crash_recovery # "unwritable"
    /\ crash_recovery' = "unwritable"
    /\ UNCHANGED <<cvars, hvars, variant, pc, call, data_iterators, checkpoints, nodenr,
                   cur, log, exc, dumps, attrs>>

DumpNext ==
    \/ ArmUnwritable
    \/ SetCrashRecovery
    \/ DoExecute
    \/ DoInverse
    \/ ExecReturn

DumpSpec == ExecInit /\ [][DumpNext]_vars

(***************************************************************************)
(* Copying.  Flow.copy pickles the pipeline and loads it again; the calls  *)
(* below are made on the pipeline itself ("self") or on its copy ("copy"). *)
(***************************************************************************)
\* the identity under which the copy of node object id is loaded
CopyId(id) == id + MaxNodes

\* a faulty variant: the list is copied, the node objects are shared
PickleCopy_Shallow(fl, h, rec, at) ==
    [flow |-> fl, heap |-> h, crash_recovery |-> rec, attrs |-> at]

\* cPickle.loads(cPickle.dumps(self)): the pipeline's __dict__ and every node
\* object it holds are rebuilt, a node held twice being rebuilt once
PickleCopy(fl, h, rec, at) ==
    [flow |-> [i \in 1..Len(fl) |-> CopyId(fl[i])],
     heap |-> [id \in DOMAIN h \cup {CopyId(j) : j \in Ids(fl)} |->
                  IF id \in DOMAIN h THEN h[id] ELSE h[id - MaxNodes]],
     crash_recovery |-> rec,
     attrs |-> at]

\* the pipeline a call is made on
Pipe(who) ==
    IF who = "self"
    THEN [flow |-> flow, crash_recovery |-> crash_recovery, attrs |-> attrs]
    ELSE [flow |-> twin.flow, crash_recovery |-> twin.crash_recovery,
          attrs |-> twin.attrs]
Pipes == IF twin.made THEN {"self", "copy"} ELSE {"self"}

\* the call leaves the pipeline `who` with the list fl and the setting rec
PipeBecomes(who, fl, rec) ==
    IF who = "self"
    THEN flow' = fl /\ crash_recovery' = rec /\ twin' = twin
    ELSE /\ twin' = [twin EXCEPT !.flow = fl, !.crash_recovery = rec]
         /\ UNCHANGED <<flow, crash_recovery>>

\* nothing but the pipelines, the heap and the call record changes
CopyFrame ==
    UNCHANGED <<alive, err, arg, variant, pc, data_iterators, checkpoints, nodenr, cur>>

\* flow.copy()
DoCopy ==
    /\ Idle /\ ~twin.made
    /\ \E c \in {PickleCopy(flow, heap, crash_recovery, attrs)} :
        /\ twin' = [made |-> TRUE, flow |-> c.flow, crash_recovery |-> c.crash_recovery,
                    attrs |-> c.attrs]
        /\ heap' = c.heap
    /\ op' = "copy"
    /\ call' = [who |-> "self"]
    /\ UNCHANGED <<flow, crash_recovery, attrs, ret, log, exc, dumps>>
    /\ CopyFrame

\* the inputs the two pipelines are executed on
CopyInputs == {[kind |-> "ndarray", items |-> <<1>>]}

\* p.execute(input), p the pipeline or its copy; any node call may raise
PipeExecute ==
    /\ Idle
    /\ \E who \in Pipes, input \in CopyInputs, fail \in 0..MaxNodes :
        \E o \in {FlowExecute(Pipe(who).flow, heap, Pipe(who).crash_recovery, input,
                              NoNodenr, fail)} :
            /\ fail <= o.n
            /\ op' = "execute"
            /\ call' = [who |-> who, nodenr |-> NoNodenr, fail |-> fail]
            /\ heap' = o.heap
            /\ ret' = IF o.exc = <<>> THEN o.x ELSE <<>>
            /\ log' = o.calls
            /\ exc' = o.exc
            /\ dumps' = o.dumps
            /\ UNCHANGED <<flow, crash_recovery, attrs, twin>>
    /\ CopyFrame

\* p[i].stop_training(): __getitem__ hands out the node object itself
PipeStopTraining ==
    /\ Idle
    /\ \E who \in Pipes : \E i \in 1..Len(Pipe(who).flow) :
        LET id == Pipe(who).flow[i]
        IN  /\ call' = [who |-> who]
            /\ IF is_training(heap[id])
               THEN heap' = [heap EXCEPT ![id] = PhaseClosed(@)] /\ exc' = <<>>
               ELSE /\ heap' = heap
                    /\ exc' = <<Frame("TrainingFinishedException", "stop_training",
                                      i - 1, <<>>, "")>>
    /\ op' = "stop_training"
    /\ UNCHANGED <<flow, crash_recovery, attrs, twin, ret, log, dumps>>
    /\ CopyFrame

\* p.set_crash_recovery(state)
PipeSetCrashRecovery ==
    /\ Idle
    /\ \E who \in Pipes, state \in {"off", "auto", "named"} :
        /\ state # Pipe(who).crash_recovery
        /\ PipeBecomes(who, Pipe(who).flow, state)
        /\ call' = [who |-> who]
    /\ op' = "set_crash_recovery"
    /\ UNCHANGED <<heap, attrs, ret, log, exc, dumps>>
    /\ CopyFrame

\* p.pop()
PipePop ==
    /\ Idle
    /\ \E who \in Pipes :
        \E o \in {FlowPop(Deref(heap, Pipe(who).flow), 0 - 1)} :
            /\ PipeBecomes(who,
                           IF o.err = "none" THEN ListDelIndex(Pipe(who).flow, 0 - 1)
                           ELSE Pipe(who).flow,
                           Pipe(who).crash_recovery)
            /\ exc' = IF o.err = "none" THEN <<>>
                      ELSE <<Frame(o.err, "pop", -1, <<>>, "")>>
            /\ call' = [who |-> who]
    /\ op' = "pop"
    /\ UNCHANGED <<heap, attrs, ret, log, dumps>>
    /\ CopyFrame

\* the dictionaries a checkpoint of the two pipelines returns
CopyResults == {3}

\* self.__dict__.update(dict) of a checkpointed training of p, for a
\* checkpoint that returned a non-empty dictionary
PipeMerge ==
    /\ Idle
    /\ \E who \in Pipes, r \in CopyResults :
        /\ IF who = "self"
           THEN attrs' = Merged(attrs, CheckpointResults[r]) /\ twin' = twin
           ELSE /\ twin' = [twin EXCEPT !.attrs = Merged(@, CheckpointResults[r])]
                /\ attrs' = attrs
        /\ call' = [who |-> who]
    /\ op' = "merge"
    /\ UNCHANGED <<flow, crash_recovery, heap, ret, log, exc, dumps>>
    /\ CopyFrame

\* the caller takes the outcome of the call
CopyReturn ==
    /\ alive
    /\ op # "idle"
    /\ op' = "idle"
    /\ call' = <<>>
    /\ ret' = <<>>
    /\ log' = <<>>
    /\ exc' = <<>>
    /\ dumps' = <<>>
    /\ UNCHANGED <<flow, crash_recovery, attrs, hvars>>
    /\ CopyFrame

CopyNext ==
    \/ DoCopy
    \/ PipeExecute
    \/ PipeStopTraining
    \/ PipeSetCrashRecovery
    \/ PipePop
    \/ PipeMerge
    \/ CopyReturn

CopySpec == ExecInit /\ [][CopyNext]_vars

(***************************************************************************)
(* Claims about the container.                                             *)
(***************************************************************************)
\* the adjacency invariant as the specification states it
Adjacent(f) ==
    \A i \in 2..Len(f) :
        (f[i-1].output_dim # NoneDim /\ f[i].input_dim # NoneDim)
            => f[i-1].output_dim = f[i].input_dim

MutatingOps ==
    {"setitem", "setslice", "delitem", "delslice", "append", "insert", "extend", "pop"}

\* C1: every pipeline that exists -- the one constructed, the one left by any
\* successful or failed container operation, the one returned by
\* concatenation -- has equal dimensions at every adjacent pair where both
\* are known; construction from a sequence with a declared mismatch raises
\* the dimension-mismatch error (ValueError) and leaves no pipeline.
C1_Adjacency ==
    /\ alive => Adjacent(flow)
    /\ (op = "add" /\ err = "none") => Adjacent(ret)
    /\ (op = "init" /\ ~Adjacent(arg)) => (~alive /\ err = "ValueError")

\* a deletion went through and left two known dimensions facing each other
C1_Witness ==
    /\ op = "delitem" /\ err = "none" /\ Len(flow) = 2
    /\ flow[1].output_dim # NoneDim /\ flow[2].input_dim # NoneDim

\* C2: a mutating operation that fails because the prospective sequence
\* violates adjacency (ValueError) or because a value is not a node
\* (TypeError) leaves the pipeline's sequence exactly as it was.
C2_Atomic ==
    [][(op' \in MutatingOps /\ err' \in {"ValueError", "TypeError"}) => flow' = flow]_vars

\* deleting a node was rejected: its neighbours do not fit each other
C2_Witness == op = "delitem" /\ err = "ValueError" /\ Len(flow) = 3

(***************************************************************************)
(* Claims about training.                                                  *)
(***************************************************************************)
\* the step in which train is called
Called == pc = "idle" /\ pc' # "idle"
\* the call raised a FlowException before anything was done: nothing is
\* logged, no node and no source has changed
FailedFast ==
    /\ pc' = "raised"
    /\ Len(exc') = 1 /\ exc'[1].class = "FlowException"
    /\ log' = <<>>
    /\ flow' = flow
    /\ data_iterators' = data_iterators
    /\ dumps' = dumps

\* the arguments of the call, as the claims describe them
DataIsList == call.data.kind = "list"
BadData ==
    \/ call.data.kind \notin {"list", "ndarray"}
    \/ DataIsList /\ Len(call.data.items) # Len(flow)
    \/ DataIsList /\ \E i \in 1..Len(call.data.items) : call.data.items[i].kind = "noniter"
BadCheckpoints ==
    /\ variant = "CheckpointFlow"
    /\ call.checkpoints.kind = "list"
    /\ Len(call.checkpoints.items) # Len(flow)
GeneratorForMultiPhase ==
    /\ DataIsList
    /\ \E i \in 1..Min(Len(call.data.items), Len(flow)) :
        flow[i].nphases > 1 /\ call.data.items[i].kind = "generator"

\* C3: train (or the checkpointed train) called with sources that are neither
\* a list nor an array, of the wrong number, or holding a non-None value that
\* is not iterable, or with a checkpoint list of the wrong length, raises a
\* FlowException before any node is trained, closed or executed and before
\* any item of any source is taken.
C3_FailFast == [][(Called /\ (BadData' \/ BadCheckpoints')) => FailedFast]_vars

\* a list of the wrong length was refused while a node was waiting for training
C3_Witness ==
    /\ pc = "raised" /\ exc = FlowException("iterators count")
    /\ \E i \in 1..Len(flow) : is_training(flow[i])

\* C4: a generator handed to a node with more than one training phase makes
\* train raise a FlowException before any item is taken or any node trained
\* (the non-rewindable-source one when the list is otherwise well formed);
\* well-formed sources with no such generator are accepted.
C4_Generator ==
    [][/\ (Called /\ GeneratorForMultiPhase')
            => (FailedFast /\ (~BadData' => exc'[1].msg = "generator"))
       /\ (Called /\ ~BadData' /\ ~BadCheckpoints' /\ ~GeneratorForMultiPhase')
            => pc' # "raised"]_vars

\* the generator of a two-phase node with one phase already closed was refused
C4_Witness ==
    /\ pc = "raised" /\ exc = FlowException("generator")
    /\ \E i \in 1..Len(flow) :
        /\ flow[i].nphases = 2 /\ flow[i].phase = 1
        /\ call.data.items[i].kind = "generator"

\* no train and no stop_training call on node i or a later one is logged
NoTrainingFrom(l, i) ==
    \A k \in 1..Len(l) : l[k].ev \in {"train", "stop_training"} => l[k].unit < i

\* C5: when train reaches a node that is training and whose source is None,
\* it raises the missing-source FlowException, and neither that node nor any
\* later one has had train or stop_training called in this call.
C5_MissingSource ==
    [][(pc = "node" /\ TheIter.kind = "None" /\ is_training(TheNode))
        => /\ pc' = "raised"
           /\ exc' = FlowException("missing source")
           /\ NoTrainingFrom(log', nodenr)]_vars

\* the second node had no source, after the first one was trained
C5_Witness ==
    /\ pc = "raised" /\ exc = FlowException("missing source") /\ nodenr = 1
    /\ \E k \in 1..Len(log) : log[k].ev = "train" /\ log[k].unit = 0

\* C6 (as claimed): with a None source, a node that is not trainable, or is
\* trainable but no longer training, is passed over: nothing is raised,
\* nothing is logged (no warning, no call on the node).
C6_SilentSkip ==
    [][(pc \in {"node", "loop"} /\ TheIter.kind = "None" /\ ~is_training(TheNode))
        => (pc' # "raised" /\ exc' = <<>> /\ NoTrainingFrom(log', nodenr)
            /\ \A k \in 1..Len(log') : log'[k].ev = "warn" => k <= Len(log))]_vars

\* the calls this step added to the log
NewCalls(evs) ==
    {k \in (Len(log) + 1)..Len(log') : log'[k].ev \in evs /\ log'[k].unit = nodenr}
\* _train_node returned after a warning: no exception, no dump, and control
\* is at the checkpoint of this node, at the next node or at the final close
WarnedAndWentOn ==
    /\ log'[Len(log')] = Ev("warn", nodenr, 0)
    /\ exc' = <<>> /\ dumps' = dumps
    /\ pc' = IF variant = "CheckpointFlow" THEN "ckpt"
             ELSE IF nodenr + 1 < Len(flow) THEN "node" ELSE "close"
    /\ nodenr' = IF pc' = "node" THEN nodenr + 1 ELSE nodenr

\* C7: a source given for a node that is not trainable, and a node answering
\* train or stop_training with TrainingFinishedException in its training
\* step, each end in a warning: nothing is raised, no dump is written, and
\* train goes on with what follows the node.
C7_Warnings ==
    [][/\ (pc = "node" /\ TheIter.kind # "None" /\ ~is_trainable(TheNode))
            => WarnedAndWentOn
       /\ (pc = "loop" /\ ~is_training(TheNode) /\ NewCalls({"train", "stop_training"}) # {})
            => WarnedAndWentOn]_vars

\* a node whose training was finished was asked to train, and train went on
\* to close the last node
C7_Witness ==
    /\ pc = "returned" /\ Len(log) >= 3
    /\ log[Len(log) - 1].ev = "warn" /\ log[Len(log) - 2].ev = "train"

\* what _train_node logs for node i from the last time it entered the try
\* block: the items taken, the train calls and the stop_training calls
RECURSIVE LastTry(_, _)
LastTry(l, i) ==
    IF l = <<>> THEN 0
    ELSE IF l[Len(l)].ev = "try" /\ l[Len(l)].unit = i THEN Len(l)
    ELSE LastTry(SubSeq(l, 1, Len(l) - 1), i)
StepCalls(l, i) ==
    SelectSeq(SubSeq(l, LastTry(l, i) + 1, Len(l)),
              LAMBDA e : e.unit = i /\ e.ev \in {"next", "train", "stop_training"})
\* one pass over m items, and k passes with a stop_training between them
RECURSIVE OnePass(_, _, _)
OnePass(i, j, m) ==
    IF j > m THEN <<>>
    ELSE <<Ev("next", i, j), Ev("train", i, j)>> \o OnePass(i, j + 1, m)
RECURSIVE Passes(_, _, _)
Passes(i, k, m) ==
    IF k = 1 THEN OnePass(i, 1, m)
    ELSE OnePass(i, 1, m) \o <<Ev("stop_training", i, 0)>> \o Passes(i, k - 1, m)

\* C8: when the training step of a node with k >= 1 phases left and a list of
\* m items returns normally, the node has been through exactly k passes over
\* the list, in order, with stop_training called after each pass but the
\* last (k - 1 times), and exactly one phase of the node is still open.
C8_Passes ==
    [][(pc = "loop" /\ pc' \notin {"loop", "raised"} /\ log' = log
            /\ TheIter.kind = "list" /\ log[LastTry(log, nodenr)].x >= 1)
        => /\ StepCalls(log', nodenr)
                = Passes(nodenr, log[LastTry(log, nodenr)].x, TheIter.n)
           /\ get_remaining_train_phase(flow'[nodenr + 1]) = 1]_vars

\* a node with two phases was taken twice through a list of two items
C8_Witness ==
    /\ pc = "close" /\ Len(flow) = 1
    /\ log # <<>> /\ log[1] = Ev("try", 0, 2)
    /\ StepCalls(log, 0) = Passes(0, 2, 2)

\* C9: _close_last_node is reached only after the last node (and its
\* checkpoint) has been dealt with; it calls stop_training on the last node;
\* a TrainingFinishedException from that call is swallowed (no warning, no
\* error), any other failure is raised as a FlowExceptionCR for the last
\* index; and when train has returned, the last node is not training.
C9_CloseLast ==
    /\ [](pc = "close" /\ Len(flow) > 0 => nodenr = Len(flow) - 1)
    /\ []((pc \in {"close", "returned"} /\ variant = "CheckpointFlow")
            => \A i \in 1..Len(flow) :
                checkpoints[i] = "fn"
                    => \E k \in 1..Len(log) : log[k] = Ev("checkpoint", i - 1, 0))
    /\ [](pc = "returned"
            => /\ Len(flow) > 0 /\ log # <<>>
               /\ log[Len(log)] = Ev("stop_training", Len(flow) - 1, 1)
               /\ ~is_training(flow[Len(flow)])
               /\ exc = <<>>)
    /\ [][(pc = "close" /\ Len(flow) > 0)
            => /\ log' = Append(log, Ev("stop_training", Len(flow) - 1, 1))
               /\ \/ pc' = "returned" /\ exc' = <<>> /\ dumps' = dumps
                  \/ /\ pc' = "raised" /\ is_training(flow[Len(flow)])
                     /\ exc'[1].class = "FlowExceptionCR"
                     /\ exc'[1].nodenr = Len(flow) - 1
                     /\ Tail(exc') = NodeError(Len(flow) - 1, "stop_training")]_vars

\* the last of two nodes was trained and then closed by _close_last_node
C9_Witness ==
    /\ pc = "returned" /\ Len(flow) = 2 /\ Len(log) >= 2
    /\ log[Len(log) - 1].ev = "train" /\ log[Len(log) - 1].unit = 1
    /\ flow[2].phase = flow[2].nphases

\* C10 (as claimed): a failure raised by a node while node i is trained (by
\* node i, or by an earlier node filtering the item) reaches the caller as a
\* FlowExceptionCR naming index i and the type of node i, whose parent
\* exception is the failure the node raised.
C10_Escalation ==
    (pc = "raised" /\ exc[Len(exc)].class = "NodeError")
        => /\ exc[1].class = "FlowExceptionCR"
           /\ exc[1].nodenr = nodenr
           /\ exc[1].type = TypeName(flow[nodenr + 1])
           /\ Tail(exc) = <<exc[Len(exc)]>>

(***************************************************************************)
(* Claims about the operands of extend and +.                              *)
(***************************************************************************)
\* C19 (as claimed): + with an operand that is not a pipeline raises the
\* type error and returns nothing; extend with a pipeline or with a sequence
\* of nodes appends the nodes in order when the result is adjacency-
\* consistent, and raises the type error for any other operand; a failing
\* extend, and + in every case, leave the pipeline's sequence as it was.
C19_OperandKinds ==
    [][/\ op' = "add" =>
            /\ flow' = flow
            /\ arg'.kind # "Flow" => (err' = "TypeError" /\ ret' = <<>>)
       /\ op' = "extend" =>
            /\ err' # "none" => flow' = flow
            /\ (arg'.kind \in {"Flow", "list"} /\ Adjacent(flow \o arg'.items))
                    => (err' = "none" /\ flow' = flow \o arg'.items)
            /\ arg'.kind = "other" => err' = "TypeError"]_vars

(***************************************************************************)
(* Claims about crash recovery and checkpoints.                            *)
(***************************************************************************)
\* the step raises a FlowExceptionCR to the caller
WrapStep == exc = <<>> /\ exc' # <<>> /\ exc'[1].class = "FlowExceptionCR"
\* the wrapping frames of the exception raised, and the dumps the step wrote
WrapFrames == {k \in 1..Len(exc') : exc'[k].class = "FlowExceptionCR"}
NewDumps == SubSeq(dumps', Len(dumps) + 1, Len(dumps'))

CheckpointRun ==
    pc # "idle" /\ variant = "CheckpointFlow" /\ Len(checkpoints) = Len(flow)
\* the caller registered a checkpoint function for node u (0-based): in the
\* list given, or as the single function given for all nodes
Registered(u) ==
    IF call.checkpoints.kind = "list" THEN call.checkpoints.items[u + 1] # "None"
    ELSE call.checkpoints.items[1] # "None"
\* the positions of the log at which the checkpoint of node u is called
CheckpointCalls(u) == {k \in 1..Len(log) : log[k].ev = "checkpoint" /\ log[k].unit = u}
\* node u has been trained and its checkpoint, if any, is behind
PastCheckpoint(u) == u < nodenr \/ (u = nodenr /\ pc \in {"close", "returned"})

\* C15: in CheckpointFlow.train the checkpoint registered for node u is
\* called exactly once when the training step of the node has returned
\* (never for a node without one), with a single function given standing for
\* every node; the call comes after every call the step makes for node u,
\* before anything is done for a later node, and before train closes the
\* node's last phase, which is still open when the checkpoint is called.
C15_CheckpointOrder ==
    /\ [](CheckpointRun =>
            \A u \in 0..(Len(flow) - 1) :
                /\ Cardinality(CheckpointCalls(u)) <= 1
                /\ (Registered(u) /\ PastCheckpoint(u)) => Cardinality(CheckpointCalls(u)) = 1
                /\ (~Registered(u) \/ u > nodenr) => CheckpointCalls(u) = {}
                /\ \A k \in CheckpointCalls(u) :
                    /\ \A j \in (k + 1)..Len(log) :
                        ~(log[j].unit = u /\ log[j].ev \in {"try", "next", "train", "warn"})
                        /\ ~(log[j] = Ev("stop_training", u, 0))
                    /\ \A j \in 1..(k - 1) :
                        /\ log[j].unit <= u
                        /\ log[j] # Ev("stop_training", u, 1)
                        /\ log[j] # Ev("autoclose", u, 0))
    /\ [][(pc = "ckpt" /\ Len(log') > Len(log)) =>
            /\ log'[Len(log) + 1] = Ev("checkpoint", nodenr, 0)
            /\ (\E j \in 1..Len(log) : log[j].ev = "try" /\ log[j].unit = nodenr
                                        /\ log[j].x >= 1)
                    => get_remaining_train_phase(TheNode) = 1]_vars

\* one function given for two nodes: train returned, both nodes were trained
\* and the function was called for each
C15_Witness ==
    /\ pc = "returned" /\ variant = "CheckpointFlow" /\ Len(flow) = 2
    /\ call.checkpoints = [kind |-> "single", items |-> <<"fn">>]
    /\ CheckpointCalls(0) # {} /\ CheckpointCalls(1) # {}
    /\ \E j \in 1..Len(log) : log[j].ev = "train" /\ log[j].unit = 1
    /\ \E j \in 1..Len(log) : log[j].ev = "train" /\ log[j].unit = 0

\* the pipeline exposes k == v
Exposes(a, k, v) == <<k, v>> \in a /\ \A p \in a : p[1] = k => p[2] = v
\* the dictionary a checkpoint returned at log position k ({} for None)
Returned(l, k) == CheckpointResults[l[k].x].dict
ResultAt(l) == {k \in 1..Len(l) : l[k].ev = "result"}

\* C16: a checkpoint that returns a non-empty dictionary has each entry
\* written to the pipeline's attributes, in place of an entry of the same
\* name, the other attributes staying as they are; one that returns None or
\* an empty dictionary, and every other step, leaves the attributes alone;
\* after train has returned the pipeline exposes, for every key returned,
\* the value of the last checkpoint that returned the key.
C16_Merge ==
    /\ [][IF ResultAt(log') # ResultAt(log) /\ Returned(log', Len(log')) # {}
          THEN LET d == Returned(log', Len(log'))
               IN  /\ \A q \in d : Exposes(attrs', q[1], q[2])
                   /\ \A p \in attrs \cup attrs' :
                        (\A q \in d : q[1] # p[1]) => (p \in attrs <=> p \in attrs')
          ELSE attrs' = attrs]_vars
    /\ [](pc = "returned" =>
            \A k \in ResultAt(log) : \A q \in Returned(log, k) :
                (\A j \in ResultAt(log) : j > k => \A r \in Returned(log, j) : r[1] # q[1])
                    => Exposes(attrs, q[1], q[2]))

\* two checkpoints returned the same key: the later value is exposed, next
\* to the other entry of the later dictionary
C16_Witness ==
    /\ pc = "returned"
    /\ \E j, k \in ResultAt(log) : j < k /\ log[j].x = 3 /\ log[k].x = 4
    /\ attrs = {<<"a", 2>>, <<"b", 2>>}

\* C17: what a checkpoint function raises leaves train as it was raised --
\* one exception, not a FlowExceptionCR -- and no crash dump is written,
\* whatever the crash recovery setting; train is over: no later node is
\* trained and the last node is not closed.
C17_Unguarded ==
    /\ [][(pc = "ckpt" /\ pc' = "raised") =>
            /\ Len(exc') = 1
            /\ exc'[1].class \in {"CheckpointError", "TrainingFinishedException"}
            /\ exc'[1].msg = "checkpoint" /\ exc'[1].nodenr = nodenr
            /\ dumps' = dumps /\ dumps = <<>>
            /\ log' = Append(log, Ev("checkpoint", nodenr, 0))
            /\ \A j \in 1..Len(log) :
                log[j].unit <= nodenr /\ log[j] # Ev("stop_training", nodenr, 1)
            /\ flow' = flow /\ attrs' = attrs]_vars
    /\ [][pc # "raised"]_vars

\* the checkpoint of the first of two nodes raised with crash recovery on
C17_Witness ==
    /\ pc = "raised" /\ crash_recovery = "named" /\ Len(flow) = 2 /\ nodenr = 0
    /\ exc = <<Frame("CheckpointError", "checkpoint", 0, <<>>, "")>>
    /\ dumps = <<>>
    /\ \E j \in 1..Len(log) : log[j].ev = "train" /\ log[j].unit = 0

(***************************************************************************)
(* Claims about execution.                                                 *)
(***************************************************************************)
\* the transforms of nodes 0..k-1 applied to a row, node 0 first
RECURSIVE Through(_, _, _)
Through(ns, k, v) == IF k = 0 THEN v ELSE Forward(ns[k].fn, Through(ns, k - 1, v))
\* the inverses of nodes k-1..last applied to a row, the last node first
RECURSIVE BackThrough(_, _, _)
BackThrough(ns, k, v) ==
    IF k > Len(ns) THEN v ELSE Backward(ns[k].fn, BackThrough(ns, k + 1, v))
\* the rows of an input, in input order
InputRows(input) == IF input.kind = "ndarray" THEN input.items ELSE Rows(input.items)
\* an input the claims cover: an array, or at least one batch
Batched(input) == input.kind = "ndarray" \/ input.items # <<>>
\* the nodes of the pipeline, in order
TheNodes == Deref(heap, flow)
\* the number of nodes execute is asked to apply, when it is a valid one
Units == IF call.nodenr.none THEN Len(flow) ELSE call.nodenr.n + 1
ValidNodenr == call.nodenr.none \/ (0 <= call.nodenr.n /\ call.nodenr.n < Len(flow))

\* C11: execute(input, nodenr) without a failing node returns the rows of
\* the input (of its batches, in input order), each taken through the
\* transforms of nodes 0..nodenr in that order (all nodes when nodenr is not
\* given); for every batch each of these nodes is executed once, in order,
\* and no other node is executed.
C11_Forward ==
    (op = "execute" /\ call.fail = 0 /\ ValidNodenr /\ Batched(arg)) =>
        /\ exc = <<>>
        /\ Len(ret) = Len(InputRows(arg))
        /\ \A r \in 1..Len(ret) : ret[r] = Through(TheNodes, Units, InputRows(arg)[r])
        /\ Len(log) = Units * (IF arg.kind = "ndarray" THEN 1 ELSE Len(arg.items))
        /\ \A p \in 1..Len(log) :
            log[p] = Ev("execute", (p - 1) % Units, ((p - 1) \div Units) + 1)

\* two batches went through an "inc" node and a "neg" node
C11_Witness ==
    /\ op = "execute" /\ exc = <<>> /\ call.nodenr.none
    /\ arg = [kind |-> "list", items |-> <<<<0>>, <<1>>>>]
    /\ Len(flow) = 2 /\ TheNodes[1].fn = "inc" /\ TheNodes[2].fn = "neg"
    /\ ret = <<0 - 1, 0 - 2>>
    /\ Len(log) = 4

\* a transform whose inverse takes its result back to where it came from
ExactInverse(fn) == \A v \in (0 - 4)..4 : Backward(fn, Forward(fn, v)) = v

\* C12: inverse(input) without a failing node inverts every batch through
\* all nodes, each once, from the last node down to node 0, and returns the
\* rows so obtained; applied to what execute returned for the input x on a
\* pipeline whose nodes all have an exact inverse, it returns the rows of x.
C12_Inverse ==
    /\ (op = "inverse" /\ call.fail = 0 /\ Batched(arg)) =>
            /\ exc = <<>>
            /\ Len(ret) = Len(InputRows(arg))
            /\ \A r \in 1..Len(ret) : ret[r] = BackThrough(TheNodes, 1, InputRows(arg)[r])
            /\ Len(log) = Len(flow) * (IF arg.kind = "ndarray" THEN 1 ELSE Len(arg.items))
            /\ \A p \in 1..Len(log) :
                log[p] = Ev("inverse", Len(flow) - 1 - ((p - 1) % Len(flow)),
                            ((p - 1) \div Len(flow)) + 1)
    /\ (op = "inverse" /\ call.of = "execute" /\ call.fail = 0
            /\ \A i \in 1..Len(flow) : ExactInverse(TheNodes[i].fn))
        => ret = InputRows(call.x0)

\* the result of execute on <<1>> through "inc" and "neg" was inverted
C12_Witness ==
    /\ op = "inverse" /\ call.of = "execute" /\ exc = <<>>
    /\ Len(flow) = 2 /\ TheNodes[1].fn = "inc" /\ TheNodes[2].fn = "neg"
    /\ arg = [kind |-> "ndarray", items |-> <<0 - 2>>]
    /\ call.x0 = [kind |-> "ndarray", items |-> <<1>>]
    /\ ret = <<1>>

\* the node (0-based) whose call is number call.fail of the operation
FailedUnit ==
    IF op = "execute"
    THEN (call.fail - 1) % (IF call.nodenr.none THEN Len(flow) ELSE call.nodenr.n + 1)
    ELSE Len(flow) - 1 - ((call.fail - 1) % Len(flow))

\* C13: when a node raises in execute or inverse, the call raises a
\* FlowExceptionCR that names the index and the type of that node and has
\* the node's failure as its parent; the failing call is the last call made
\* on any node, and nothing is returned.
C13_ExecFailure ==
    (op \in {"execute", "inverse"} /\ call.fail > 0) =>
        /\ Len(exc) = 2
        /\ exc[1].class = "FlowExceptionCR"
        /\ exc[1].nodenr = FailedUnit
        /\ exc[1].type = TypeName(TheNodes[FailedUnit + 1])
        /\ exc[2] = NodeError(FailedUnit, op)[1]
        /\ ret = <<>>
        /\ Len(log) = call.fail
        /\ log[Len(log)].unit = FailedUnit /\ log[Len(log)].ev = op

\* the last node of two failed in inverse: node 0 was not inverted
C13_Witness ==
    /\ op = "inverse" /\ call.fail = 1 /\ Len(flow) = 2
    /\ Len(exc) = 2 /\ exc[1].nodenr = 1 /\ exc[2].class = "NodeError"
    /\ log = <<Ev("inverse", 1, 1)>>

\* what the caller sees of an outcome: the array returned, the exceptions
\* raised (class, node index and node type) and the state of the nodes
Observed(x, chain, h) ==
    <<x, [k \in 1..Len(chain) |-> <<chain[k].class, chain[k].nodenr, chain[k].type>>], h>>

\* C20 (as claimed): execute(input, nodenr) has the outcome of
\* flow[:nodenr+1] executed on the same input, whatever integer nodenr is.
C20_PrefixSlice ==
    [][(op' = "execute" /\ ~call'.nodenr.none) =>
        LET s == GetItemSlice(flow, heap, call'.nodenr.n + 1)
            o == FlowExecute(s.flow, heap, s.crash_recovery, arg', NoNodenr, call'.fail)
        IN  /\ s.err = "none"
            /\ Observed(ret', exc', heap')
                = Observed(IF o.exc = <<>> THEN o.x ELSE <<>>, o.exc, o.heap)]_vars

(***************************************************************************)
(* Claims about copy.                                                      *)
(***************************************************************************)
\* what a pipeline is made of: its list, its nodes' state, its settings
OriginalState(h) ==
    <<flow, crash_recovery, attrs, [id \in Ids(flow) |-> h[id]]>>
CopyState(t, h) ==
    <<t.flow, t.crash_recovery, t.attrs, [id \in Ids(t.flow) |-> h[id]]>>

\* C18: copy returns a pipeline with as many nodes, in the same order and in
\* the same state, that gives on every input the output the original gives,
\* and leaves the original as it is; afterwards no call on the copy
\* (execute, closing a node's training, set_crash_recovery, pop, the merge of
\* a checkpoint's dictionary) changes the
\* list, the nodes or the settings of the original, and no call on the
\* original changes those of the copy.
C18_CopyIndependent ==
    /\ [][op' = "copy" =>
            /\ twin'.made
            /\ Len(twin'.flow) = Len(flow)
            /\ \A i \in 1..Len(flow) : heap'[twin'.flow[i]] = heap[flow[i]]
            /\ \A i, j \in 1..Len(flow) : (twin'.flow[i] = twin'.flow[j]) <=> (flow[i] = flow[j])
            /\ OriginalState(heap') = OriginalState(heap) /\ flow' = flow
            /\ \A input \in ExecInputs :
                FlowExecute(twin'.flow, heap', "off", input, NoNodenr, 0).x
                    = FlowExecute(flow, heap, "off", input, NoNodenr, 0).x]_vars
    /\ [][(twin.made /\ op' # "idle" /\ call'.who = "copy")
            => (OriginalState(heap') = OriginalState(heap) /\ flow' = flow
                /\ crash_recovery' = crash_recovery /\ attrs' = attrs)]_vars
    /\ [][(twin.made /\ op' # "idle" /\ call'.who = "self")
            => CopyState(twin', heap') = CopyState(twin, heap)]_vars

\* a node of the copy had its training closed: the node the original holds
\* at that place is still training
C18_Witness ==
    /\ twin.made /\ op = "stop_training" /\ call.who = "copy" /\ exc = <<>>
    /\ Len(flow) = 2 /\ Len(twin.flow) = 2
    /\ ~is_training(heap[twin.flow[1]])
    /\ is_training(heap[flow[1]])

(***************************************************************************)
(* Claims about what a train call leaves behind and the order of its calls.*)
(***************************************************************************)
\* an item was taken from the source of a node after node number u
FilteredThrough(l, u) == \E k \in 1..Len(l) : l[k].ev = "next" /\ l[k].unit > u

\* C21 (as claimed): after train has returned normally no node of the
\* pipeline has an open training phase.
C21_AllClosed ==
    pc = "returned" => \A i \in 1..Len(flow) : ~is_training(flow[i])

\* C21 (amended): after train has returned normally the last node has no
\* open training phase, and neither has any earlier node through which an
\* item of a later node's source was filtered; an earlier node past which
\* no item was taken may still be training.
C21_ClosedWhenExecuted ==
    pc = "returned"
        => /\ Len(flow) > 0
           /\ ~is_training(flow[Len(flow)])
           /\ \A i \in 1..(Len(flow) - 1) :
                FilteredThrough(log, i - 1) => ~is_training(flow[i])

\* train returned; the first node was closed by the filtering of the second
\* node's items, the second by _close_last_node
C21_Witness ==
    /\ pc = "returned" /\ Len(flow) = 2
    /\ \E k \in 1..Len(log) : log[k] = Ev("autoclose", 0, 0)
    /\ log[Len(log)] = Ev("stop_training", 1, 1)
    /\ flow[1].trainable /\ ~is_training(flow[1])
    /\ flow[2].trainable /\ ~is_training(flow[2])

\* the place in l of the last "next" event at or before place k (0: none)
RECURSIVE TakenAt(_, _)
TakenAt(l, k) ==
    IF k = 0 THEN 0 ELSE IF l[k].ev = "next" THEN k ELSE TakenAt(l, k - 1)
\* the calls of execute between places a and b of l
ExecutesBetween(l, a, b) ==
    SelectSeq(SubSeq(l, a, b), LAMBDA e : e.ev # "autoclose")
\* what the train call at place k of l was given after the item
ExtrasGiven(l, k) ==
    IF k < Len(l) /\ l[k + 1].ev = "extra" THEN l[k + 1].x ELSE 0
TrainAt(l) == {k \in 1..Len(l) : l[k].ev = "train"}

C23_NotMasked ==
    (op \in {"execute", "inverse"} /\ call.fail > 0 /\ crash_recovery # "off") =>
        /\ exc # <<>>
        /\ exc[1].class = "FlowExceptionCR"
        /\ exc[Len(exc)] = NodeError(FailedUnit, op)[1]

\* the FlowExceptionCR frames of a chain
Wraps(chain) == {k \in 1..Len(chain) : chain[k].class = "FlowExceptionCR"}

\* C24 (as claimed): a train call that fails with a FlowExceptionCR while
\* crash recovery is set has written exactly one crash dump and wrapped the
\* failure exactly once, whichever node raised it.
C24_OneDump ==
    (pc = "raised" /\ crash_recovery # "off" /\ exc[1].class = "FlowExceptionCR")
        => /\ Len(dumps) = 1
           /\ Cardinality(Wraps(exc)) = 1

(***************************************************************************)
(* Claims about termination.                                               *)
(***************************************************************************)
\* the passes of the loop of _train_node over the source of the node in
\* the step in progress: one, and one more for every stop_training made
PassesMade ==
    1 + Cardinality({k \in (LastTry(log, nodenr) + 1)..Len(log) :
                        log[k] = Ev("stop_training", nodenr, 0)})

\* C25: a train call on a pipeline with at least one node, plain or with
\* checkpoints, returns or raises; while the loop of _train_node runs for a
\* node that had k phases left when the try block was entered, it is in
\* pass number k at most (the first when k = 0).
C25_Terminates ==
    /\ [](pc = "loop" => PassesMade <= Max(1, log[LastTry(log, nodenr)].x))
    /\ (pc \notin {"idle", "returned", "raised"} /\ Len(flow) > 0)
            ~> (pc \in {"returned", "raised"})

\* a checkpointed train call on two nodes returned after going twice through
\* the source of the first, which had two phases left
C25_Witness ==
    /\ pc = "returned" /\ variant = "CheckpointFlow" /\ Len(flow) = 2
    /\ \E k \in 1..Len(log) : log[k] = Ev("try", 0, 2)
    /\ \E k \in 1..Len(log) : log[k] = Ev("stop_training", 0, 0)
    /\ \E k \in 1..Len(log) : log[k] = Ev("checkpoint", 1, 0)

====
